---------------------------- MODULE Spec2Model ----------------------------
(***************************************************************************)
(* The Discovery - Deduplication - Ranking - Extraction pipeline of the    *)
(* Daily Engineering Intelligence program (src/src/main.py, collector.py,  *)
(* curator.py, reader.py, models.py).                                      *)
(*                                                                         *)
(* The specifications:                                                     *)
(*   Spec    the pipeline main(): a sequence of runs against one state     *)
(*           file (state.json), every stage an action;                     *)
(*   SpecFn  the Collector's list functions _deduplicate and _filter_new   *)
(*           applied to arbitrary item lists;                              *)
(*   SpecStore  the state store: Collectors constructed over one state     *)
(*           file, add_url / mark_processed and save_state in any order;   *)
(*   SpecCur the Curator: _apply_filters and curate() applied to arbitrary *)
(*           item lists under the configurations of curation.yaml;         *)
(*   SpecExt the Reader: extract and extract_all applied to arbitrary item *)
(*           lists, every stage of extract succeeding or failing.          *)
(*   SpecContent  the Reader's _extract_content on every page; SpecPage    *)
(*           extract in detail on one item (fetch, conversion, length      *)
(*           guard, files written); SpecBatch extract_all on batches of    *)
(*           items whose URLs share paths; SpecScore the Curator's         *)
(*           _score_items under allowlists with repeated entries.          *)
(*                                                                         *)
(* Modelling conventions:                                                  *)
(*   - texts (title, snippet, patterns) are tuples of one-character        *)
(*     strings, so that length, lower-casing and substring tests are       *)
(*     computed;                                                           *)
(*   - a datetime is [kind, age]: kind "none" (None), "aware" (carries a   *)
(*     timezone) or "naive" (no timezone); age is its distance from now    *)
(*     in hours;                                                           *)
(*   - last_run is 0 for None and otherwise the number of the run that     *)
(*     set it;                                                             *)
(*   - Python object references to Items are indices into items.           *)
(***************************************************************************)
EXTENDS Integers, Sequences, FiniteSets, TLC

VARIABLES
    file,            \* data/state.json on disk
    sources_yaml,    \* config/sources.yaml on disk
    curation_yaml,   \* config/curation.yaml on disk
    pc,              \* position of main()
    run,             \* number of runs started
    state,           \* collector.state (PipelineState in memory)
    sources_config,  \* collector.sources_config
    items,           \* items returned by collect(), with their status
    selected,        \* selected_items, as indices into items
    articles,        \* articles returned by extract_all
    failed_at,       \* stage whose exception ended the run ("" if none)
    loads,           \* number of _load_state calls in the current run
    file_at_start,   \* the state file as it was when the run started
    stages,          \* stages of main() completed in the current run
    lookback_days,   \* collector.lookback_days
    handed,          \* URLs handed to extract in earlier runs
    committed,       \* URLs selected in earlier runs that ran to completion
    saved_urls,      \* URLs held by the state at a completed save_state
    added,           \* URLs ever added to the state or found in the file
    fn_op,           \* SpecFn: function applied ("none" before)
    fn_in,           \* SpecFn: its input list
    fn_out           \* SpecFn: its result

vars == << file, sources_yaml, curation_yaml, pc, run, state, sources_config,
           items, selected, articles, failed_at, loads, file_at_start,
           stages, lookback_days, handed, committed, saved_urls, added,
           fn_op, fn_in, fn_out >>

-----------------------------------------------------------------------------
(* Bounds *)

MaxRuns == 2
MaxFeedLen == 2
MaxListLen == 3

-----------------------------------------------------------------------------
(* Helpers *)

Range(s) == {s[i] : i \in 1..Len(s)}

Max(a, b) == IF a >= b THEN a ELSE b

SeqsOf(S) == {s \in [1..Cardinality(S) -> S] : Range(s) = S}

SeqsUpTo(S, n) == UNION {[1..k -> S] : k \in 0..n}

Rep(c, n) == [i \in 1..n |-> c]

RECURSIVE KeepRange(_, _, _, _)
\* The characters of t at the positions of keep between lo and hi, in order.
KeepRange(t, keep, lo, hi) ==
    IF lo > hi THEN << >>
    ELSE IF lo = hi THEN IF lo \in keep THEN << t[lo] >> ELSE << >>
    ELSE KeepRange(t, keep, lo, (lo + hi) \div 2)
            \o KeepRange(t, keep, (lo + hi) \div 2 + 1, hi)

\* The characters of t at the positions of keep, in order.
KeepAt(t, keep) == KeepRange(t, keep, 1, Len(t))

-----------------------------------------------------------------------------
(* models.py *)

PENDING == "pending"
SELECTED == "selected"
EXTRACTED == "extracted"
EXTRACT_FAILED == "extract_failed"
SYNTHESIZED == "synthesized"

ItemStatus == {PENDING, SELECTED, EXTRACTED, EXTRACT_FAILED, SYNTHESIZED}

URLS == {"u1", "u2", "u3", "u4"}

\* hashlib.md5(url.encode()).hexdigest()[:12]: a function of the URL alone;
\* 48 bits, so two URLs may share a fingerprint (here u1 and u3 do).
url_hash(url) ==
    CASE url = "u1" -> "h1"
      [] url = "u2" -> "h2"
      [] url = "u3" -> "h1"
      [] url = "u4" -> "h4"
      [] url = "https://a.com/blog/post-1" -> "h5"
      [] url = "https://b.com/blog/post-1" -> "h6"
      [] url = "https://a.com/blog/post-1?page=2" -> "h7"
      [] url = "https://a.com/AI/Grid_1/" -> "h8"
      [] url = "https://a.com/" -> "h9"
      [] url = "https://a.com/blog/post-2" -> "h10"
      [] url = "https://a.com/xxxxxxxxxxxxxxxxxxxxxxxxxxxxxxxxxxxxxxxxxxxxxxxxxx1" -> "h11"
      [] url = "https://a.com/xxxxxxxxxxxxxxxxxxxxxxxxxxxxxxxxxxxxxxxxxxxxxxxxxx2" -> "h12"
      [] OTHER -> "h0"

NoDate == [kind |-> "none", age |-> 0]
Aware(h) == [kind |-> "aware", age |-> h]
Naive(h) == [kind |-> "naive", age |-> h]

\* PipelineState()
EmptyState == [last_run |-> 0, processed_urls |-> {}, processed_dates |-> << >>]

\* PipelineState.add_url
add_url(st, url) == [st EXCEPT !.processed_urls = @ \cup {url}]

\* PipelineState.is_processed
is_processed(st, url) == url \in st.processed_urls

-----------------------------------------------------------------------------
(* The state file and Collector._load_state / save_state *)

\* state.json is missing, is not JSON ("garbage"), is JSON that is no object
\* ("notobject": PipelineState(**data) raises TypeError), is JSON that does not
\* fit PipelineState ("badshape": a processed_urls list beside a field that
\* fails validation), or is what save_state writes ("ok").
FileKinds == {"missing", "garbage", "notobject", "badshape", "ok"}

MissingFile ==
    [kind |-> "missing", last_run |-> 0, processed_urls |-> << >>,
     processed_dates |-> << >>]

\* The processed URLs the file durably holds.
DurableUrls(f) ==
    IF f.kind \in {"ok", "badshape"} THEN Range(f.processed_urls) ELSE {}

\* Mutant: the processed_urls of the file are not restored.
LoadState_DropsUrls(f) ==
    IF f.kind = "ok"
    THEN [last_run |-> f.last_run, processed_urls |-> {},
          processed_dates |-> f.processed_dates]
    ELSE [last_run |-> 0, processed_urls |-> {}, processed_dates |-> << >>]

\* Mutant: the processed_urls list of a file that fails validation is salvaged.
LoadState_KeepsBadshape(f) ==
    IF f.kind \in {"ok", "badshape"}
    THEN [last_run |-> IF f.kind = "ok" THEN f.last_run ELSE 0,
          processed_urls |-> Range(f.processed_urls),
          processed_dates |-> IF f.kind = "ok" THEN f.processed_dates ELSE << >>]
    ELSE [last_run |-> 0, processed_urls |-> {}, processed_dates |-> << >>]

\* _load_state: exists() -> json.loads -> list to set -> PipelineState(**data);
\* any exception, and a missing file, give PipelineState().
LoadState(f) ==
    IF f.kind = "ok"
    THEN [last_run |-> f.last_run,
          processed_urls |-> Range(f.processed_urls),
          processed_dates |-> f.processed_dates]
    ELSE EmptyState

\* Mutant: the list written lacks its last element.
SavedFiles_Truncated(st) ==
    {[kind |-> "ok", last_run |-> st.last_run,
      processed_urls |-> SubSeq(order, 1, Len(order) - 1),
      processed_dates |-> st.processed_dates] : order \in SeqsOf(st.processed_urls)}

\* save_state: model_dump, the set as a list (in the set's iteration order,
\* which Python does not fix), json.dumps, write_text.
SavedFiles(st) ==
    {[kind |-> "ok", last_run |-> st.last_run, processed_urls |-> order,
      processed_dates |-> st.processed_dates] : order \in SeqsOf(st.processed_urls)}

\* The state files a first run may find.
InitialFiles ==
    { MissingFile,
      [MissingFile EXCEPT !.kind = "garbage"],
      [MissingFile EXCEPT !.kind = "badshape", !.processed_urls = << "u1" >>],
      [MissingFile EXCEPT !.kind = "ok"],
      [MissingFile EXCEPT !.kind = "ok", !.processed_urls = << "u2" >>] }

-----------------------------------------------------------------------------
(* Texts *)

Lower(c) ==
    CASE c = "A" -> "a"
      [] c = "I" -> "i"
      [] c = "G" -> "g"
      [] c = "R" -> "r"
      [] c = "D" -> "d"
      [] OTHER -> c

\* str.lower()
lower(t) == [i \in 1..Len(t) |-> Lower(t[i])]

\* pattern in text
Contains(text, pattern) ==
    \E i \in 0..(Len(text) - Len(pattern)) :
        SubSeq(text, i + 1, i + Len(pattern)) = pattern

T_AI_tooling == << "A", "I", " ", "t", "o", "o", "l", "i", "n", "g" >>
T_Go_release == << "G", "o", " ", "r", "e", "l", "e", "a", "s", "e", "d" >>
T_Ad_for_AI == << "A", "d", " ", "f", "o", "r", " ", "A", "I", "!", "!" >>
T_AI_dup == << "A", "I", " ", "d", "u", "p" >>
T_Rust_async == << "R", "u", "s", "t", " ", "a", "s", "y", "n", "c", "!" >>
S_ai == << "a", "i" >>
S_empty == << >>
\* a snippet of more than 100 characters
S_long == [i \in 1..101 |-> "x"]

-----------------------------------------------------------------------------
(* Sources and feeds *)

\* A source record of sources.yaml. valid = Source(**source_config) passes
\* validation (name, type and url present, type a SourceType, priority 1..10).
SourceCfg(name, type, enabled, valid) ==
    [name |-> name, type |-> type, enabled |-> enabled, valid |-> valid]

Group(name, sources) == [name |-> name, sources |-> sources]

\* The contents of sources.yaml; exists = FALSE when the file is absent.
SourcesFiles ==
    { [exists |-> FALSE, groups |-> << >>],
      [exists |-> TRUE,
       groups |-> << Group("A", << SourceCfg("s1", "rss", TRUE, TRUE) >>),
                     Group("B", << SourceCfg("s2", "rss", TRUE, TRUE) >>) >>],
      [exists |-> TRUE,
       groups |-> << Group("A", << SourceCfg("s1", "rss", TRUE, FALSE) >>),
                     Group("B", << SourceCfg("s2", "rss", TRUE, TRUE) >>) >>],
      [exists |-> TRUE,
       groups |-> << Group("A", << SourceCfg("s1", "rss", FALSE, TRUE),
                                  SourceCfg("s3", "api", TRUE, TRUE),
                                  SourceCfg("s2", "rss", TRUE, TRUE) >>) >>] }

SourceNames == {"s1", "s2", "s3"}

\* A feed entry as feedparser gives it.
Entry(link, title, summary, date) ==
    [link |-> link, title |-> title, summary |-> summary, date |-> date]

\* The entries each feed may carry.
Pool(name) ==
    CASE name = "s1" ->
            { Entry("u1", T_AI_tooling, S_ai, Aware(12)),
              Entry("u2", T_Go_release, S_empty, Aware(240)),
              Entry("u3", T_Ad_for_AI, S_ai, NoDate),
              Entry("u4", T_Rust_async, S_ai, Aware(30)) }
      [] name = "s2" ->
            { Entry("u1", T_AI_dup, S_ai, Aware(30)),
              Entry("u4", T_Rust_async, S_empty, Naive(12)) }
      [] OTHER -> {}

\* What fetching a feed gives: its entries (ok), or an exception raised inside
\* feedparser.parse (not ok).
FeedResults(name) ==
    {[ok |-> TRUE, entries |-> e] : e \in SeqsUpTo(Pool(name), MaxFeedLen)}
        \cup {[ok |-> FALSE, entries |-> << >>]}

NotFetched == [ok |-> TRUE, entries |-> << >>]

-----------------------------------------------------------------------------
(* collector.py *)

Item(id, title, url, published_at, source, snippet, group, status) ==
    [id |-> id, title |-> title, url |-> url, published_at |-> published_at,
     source |-> source, snippet |-> snippet, group |-> group, status |-> status]

\* _clean_html(entry.summary)[:500] (the summaries here hold no markup)
Snippet(summary) ==
    SubSeq(summary, 1, IF Len(summary) < 500 THEN Len(summary) ELSE 500)

RECURSIVE EntriesToItems(_, _, _)
\* The loop of _fetch_rss over feed.entries: an entry without link is skipped.
EntriesToItems(entries, name, group_name) ==
    IF entries = << >> THEN << >>
    ELSE LET entry == Head(entries)
             rest == EntriesToItems(Tail(entries), name, group_name)
         IN  IF entry.link = "" THEN rest
             ELSE << Item(url_hash(entry.link), entry.title, entry.link,
                          entry.date, name, Snippet(entry.summary),
                          group_name, PENDING) >> \o rest

\* _fetch_rss: every exception is caught inside and the items gathered so far
\* are returned; feedparser.parse raising leaves none.
FetchRss(source, group_name, res) ==
    IF res.ok THEN EntriesToItems(res.entries, source.name, group_name)
    ELSE << >>

\* _fetch_source: api and scrape are placeholders returning [].
FetchSource(source, group_name, res) ==
    IF source.type = "rss" THEN FetchRss(source, group_name, res) ELSE << >>

\* Mutant: of the items sharing an id the last one is kept, not the first.
RECURSIVE DedupLoop_KeepsLast(_, _)
DedupLoop_KeepsLast(its, seen) ==
    IF its = << >> THEN << >>
    ELSE IF \E k \in 2..Len(its) : its[k].id = Head(its).id
         THEN DedupLoop_KeepsLast(Tail(its), seen)
         ELSE << Head(its) >> \o DedupLoop_KeepsLast(Tail(its), seen)

RECURSIVE DedupLoop(_, _)
DedupLoop(its, seen) ==
    IF its = << >> THEN << >>
    ELSE IF Head(its).id \notin seen
         THEN << Head(its) >> \o DedupLoop(Tail(its), seen \cup {Head(its).id})
         ELSE DedupLoop(Tail(its), seen)

\* Mutant: duplicates are recognised by URL instead of by id.
RECURSIVE DedupByUrl(_, _)
DedupByUrl(its, seen) ==
    IF its = << >> THEN << >>
    ELSE IF Head(its).url \notin seen
         THEN << Head(its) >> \o DedupByUrl(Tail(its), seen \cup {Head(its).url})
         ELSE DedupByUrl(Tail(its), seen)

Deduplicate_ByUrl(its) == DedupByUrl(its, {})

\* _deduplicate
Deduplicate(its) == DedupLoop(its, {})

\* collector.py:32, lookback_days (main() passes none)
LookbackDays == 7

\* item.published_at < cutoff_date, cutoff_date = now(utc) - days (lookback_days):
\* comparing a naive datetime with the aware cutoff raises TypeError.
OlderThanCutoff(d, days) == d.age > days * 24

\* Mutant: the processed-URL check is left out of the filter.
FilterSkips_AgeOnly(it, st, days) ==
    it.published_at.kind # "none" /\ OlderThanCutoff(it.published_at, days)

FilterSkips(it, st, days) ==
    \/ is_processed(st, it.url)
    \/ it.published_at.kind # "none" /\ OlderThanCutoff(it.published_at, days)

FilterRaises(it, st) ==
    /\ ~is_processed(st, it.url)
    /\ it.published_at.kind = "naive"

\* What a call gives: the list returned, or raised with the place (at) the
\* exception left from.
Returned(its) == [raised |-> FALSE, at |-> "", items |-> its]
Raised(at) == [raised |-> TRUE, at |-> at, items |-> << >>]

\* _filter_new: raises when the loop reaches an unprocessed item whose
\* published_at is naive.
FilterNew(its, st, days) ==
    IF \E i \in 1..Len(its) : FilterRaises(its[i], st)
    THEN Raised("_filter_new")
    ELSE Returned(SelectSeq(its, LAMBDA it : ~FilterSkips(it, st, days)))

\* _load_sources
LoadSources(yaml) ==
    IF yaml.exists THEN [groups |-> yaml.groups] ELSE [groups |-> << >>]

RECURSIVE Flatten(_)
\* The two nested loops of collect(), as one sequence of (group, source record).
Flatten(groups) ==
    IF groups = << >> THEN << >>
    ELSE [i \in 1..Len(Head(groups).sources) |->
              [group |-> Head(groups).name, cfg |-> Head(groups).sources[i]]]
         \o Flatten(Tail(groups))

\* Source(**source_config) is evaluated outside the try of collect().
SourceRaises(cfg) == ~cfg.valid

RECURSIVE CollectLoop(_, _)
\* The loop of collect(): returns all_items.
CollectLoop(srcs, feeds) ==
    IF srcs = << >> THEN Returned(<< >>)
    ELSE LET s == Head(srcs)
             rest == CollectLoop(Tail(srcs), feeds)
         IN  IF SourceRaises(s.cfg) THEN Raised("Source")
             ELSE IF ~s.cfg.enabled THEN rest
             ELSE IF rest.raised THEN rest
             ELSE Returned(FetchSource(s.cfg, s.group, feeds[s.cfg.name])
                               \o rest.items)

\* The sources collect() fetches: enabled rss sources before the first record
\* that fails validation.
Fetched(srcs) ==
    {srcs[i].cfg.name : i \in {j \in 1..Len(srcs) :
        /\ srcs[j].cfg.enabled /\ srcs[j].cfg.type = "rss"
        /\ \A k \in 1..j : srcs[k].cfg.valid}}

\* What the fetch of source name may give under config: a source that
\* collect() does not fetch gives nothing.
FeedChoices(name, config) ==
    IF name \in Fetched(Flatten(config.groups)) THEN FeedResults(name)
    ELSE {NotFetched}

\* collect()
Collect(config, feeds, st, days) ==
    LET all == CollectLoop(Flatten(config.groups), feeds)
    IN  IF all.raised THEN all
        ELSE FilterNew(Deduplicate(all.items), st, days)

\* Mutant: collect() records the items it returns as processed.
StateAfterCollect_MarksReturned(st, r) ==
    IF r.raised THEN st
    ELSE [st EXCEPT !.processed_urls =
                       @ \cup {r.items[i].url : i \in 1..Len(r.items)}]

\* self.state after collect() gave r: collect() and the functions it calls
\* only read it (is_processed, line 237).
StateAfterCollect(st, r) == st

\* mark_processed: add_url for every item (last_run is set by the action)
RECURSIVE MarkUrls(_, _)
MarkUrls(st, its) ==
    IF its = << >> THEN st ELSE MarkUrls(add_url(st, Head(its).url), Tail(its))

-----------------------------------------------------------------------------
(* curator.py *)

CurationConfig(top_per_group, allowlist, denylist, min_title_length) ==
    [top_per_group |-> top_per_group, allowlist |-> allowlist,
     denylist |-> denylist, min_title_length |-> min_title_length]

\* models.py:137-140, CurationConfig()
DefaultCuration == CurationConfig(5, << >>, << >>, 10)

\* The contents of curation.yaml; exists = FALSE when the file is absent.
CurationFiles ==
    { [exists |-> FALSE, data |-> DefaultCuration],
      [exists |-> TRUE,
       data |-> CurationConfig(1, << << "A", "I" >> >>, << << "a", "d" >> >>, 3)],
      [exists |-> TRUE, data |-> CurationConfig(2, << >>, << >>, 3)] }

\* _load_config
LoadConfig(yaml) == IF yaml.exists THEN yaml.data ELSE DefaultCuration

\* f"{item.title} {item.snippet}".lower()
Text(it) == lower(it.title \o << " " >> \o it.snippet)

\* Mutant: the allowlist pattern is compared as written, not lower-cased.
MatchesAllowlist_CaseSensitive(it, config) ==
    \E i \in 1..Len(config.allowlist) : Contains(Text(it), config.allowlist[i])

\* _matches_allowlist
MatchesAllowlist(it, config) ==
    \E i \in 1..Len(config.allowlist) : Contains(Text(it), lower(config.allowlist[i]))

\* _matches_denylist
MatchesDenylist(it, config) ==
    \E i \in 1..Len(config.denylist) : Contains(Text(it), lower(config.denylist[i]))

\* Mutant: an item matching the allowlist is kept whatever the denylist says.
FilterKeeps_AllowlistWins(it, config) ==
    /\ ~(Len(it.title) < config.min_title_length)
    /\ \/ MatchesAllowlist(it, config)
       \/ /\ ~MatchesDenylist(it, config)
          /\ config.allowlist = << >>

\* The body of the loop of _apply_filters: TRUE when the item is appended.
FilterKeeps(it, config) ==
    /\ ~(Len(it.title) < config.min_title_length)
    /\ ~MatchesDenylist(it, config)
    /\ ~(config.allowlist # << >> /\ ~MatchesAllowlist(it, config))

\* _apply_filters, as the indices (into its) of the items kept
ApplyFilters(its, config) ==
    SelectSeq([i \in 1..Len(its) |-> i], LAMBDA i : FilterKeeps(its[i], config))

\* The score of _score_items, times 12 (so that it is an integer):
\* 1.0 per allowlist entry matched, max(0, 24 - age_hours) / 24 * 2 when
\* published_at is set, 0.5 when the snippet is longer than 100.
ScoreTimes12(it, config) ==
    12 * Cardinality({i \in 1..Len(config.allowlist) :
                        Contains(Text(it), lower(config.allowlist[i]))})
    + (IF it.published_at.kind # "none"
       THEN Max(0, 24 - it.published_at.age) ELSE 0)
    + (IF Len(it.snippet) > 100 THEN 6 ELSE 0)

\* now(utc) - item.published_at raises TypeError for a naive published_at.
ScoreRaises(it) == it.published_at.kind = "naive"

RECURSIVE SortDesc(_)
\* list.sort(key = score, reverse = True): stable, equal scores keep their order.
SortDesc(scored) ==
    IF scored = << >> THEN << >>
    ELSE LET n == Len(scored)
             init == SortDesc(SubSeq(scored, 1, n - 1))
             x == scored[n]
             k == Cardinality({i \in 1..Len(init) : init[i].score >= x.score})
         IN  SubSeq(init, 1, k) \o << x >> \o SubSeq(init, k + 1, Len(init))

\* _score_items over the kept indices: (index, score) pairs, sorted
ScoreItems(its, idxs, config) ==
    SortDesc([j \in 1..Len(idxs) |->
                 [idx |-> idxs[j], score |-> ScoreTimes12(its[idxs[j]], config)]])

RECURSIVE TopLoop(_, _, _, _)
TopLoop(scored, its, group_counts, config) ==
    IF scored = << >> THEN << >>
    ELSE LET idx == Head(scored).idx
             g == its[idx].group
         IN  IF group_counts[g] < config.top_per_group
             THEN << idx >> \o TopLoop(Tail(scored), its,
                                      [group_counts EXCEPT ![g] = @ + 1], config)
             ELSE TopLoop(Tail(scored), its, group_counts, config)

\* _select_top_per_group
SelectTopPerGroup(scored, its, config) ==
    TopLoop(scored, its, [g \in {its[i].group : i \in 1..Len(its)} |-> 0], config)

\* curate(): [raised, at, selected], selected the indices (into its) of the items
\* returned, in the order returned.
Curate(its, config) ==
    LET kept == ApplyFilters(its, config)
    IN  IF \E j \in 1..Len(kept) : ScoreRaises(its[kept[j]])
        THEN [raised |-> TRUE, at |-> "_score_items", selected |-> << >>]
        ELSE [raised |-> FALSE, at |-> "",
              selected |-> SelectTopPerGroup(ScoreItems(its, kept, config), its, config)]

-----------------------------------------------------------------------------
(* reader.py *)

\* What extract(item) returns (Article: url, success, error).
Article(url, success, error) == [url |-> url, success |-> success, error |-> error]

\* The outcomes of extract() the runs of main() are told apart by: every stage
\* succeeds, or the page cannot be fetched ("" is error = None).
ExtractOutcomes == {"ok", "fetch_failed"}

\* How the stages inside the try of extract() may end: "fetch_failed"
\* (_fetch_html gives None: transport error, a status such as 404, a content
\* type that is not HTML), "no_content" (_extract_content gives None),
\* "too_short" (less than 100 characters of markdown), "save_failed"
\* (_save_article raises after success was set), "fault" (any other exception
\* raised inside the try), "ok".
StageOutcomes ==
    ExtractOutcomes \cup {"no_content", "too_short", "save_failed", "fault"}

\* A URL urlparse rejects (ValueError: Invalid IPv6 URL), such as "http://[bad".
BadUrl == "http://[bad"

\* Article.from_item(item), line 85, is evaluated before the try of extract():
\* urlparse(item.url) raising leaves extract().
ExtractRaises(it) == it.url = BadUrl

\* extract(item) when from_item returns: the Article returned.
Extract(it, outcome) ==
    CASE outcome = "ok" -> Article(it.url, TRUE, "")
      [] outcome = "fetch_failed" -> Article(it.url, FALSE, "Failed to fetch HTML")
      [] outcome = "no_content" -> Article(it.url, FALSE, "Failed to extract content")
      [] outcome = "too_short" -> Article(it.url, FALSE, "Extracted content too short")
      [] outcome = "save_failed" -> Article(it.url, TRUE, "str(e)")
      [] OTHER -> Article(it.url, FALSE, "str(e)")

\* Mutant: a successful extraction is given the unused SYNTHESIZED status.
StatusAfterExtract_Synthesized(article) ==
    IF article.success THEN SYNTHESIZED ELSE EXTRACT_FAILED

\* Mutant: the status is decided by the error field instead of success.
StatusAfterExtract_ByError(article) ==
    IF article.error = "" THEN EXTRACTED ELSE EXTRACT_FAILED

\* The status extract_all assigns to the item of an article.
StatusAfterExtract(article) ==
    IF article.success THEN EXTRACTED ELSE EXTRACT_FAILED

RECURSIVE ExtractAllLoop(_, _, _)
\* The loop of extract_all over items from position i on: the articles
\* appended, the items with the status assigned, the positions extract was
\* called with; raised when extract raised, which ends the loop.
ExtractAllLoop(its, outcomes, i) ==
    IF i > Len(its)
    THEN [raised |-> FALSE, articles |-> << >>, items |-> its, calls |-> << >>]
    ELSE IF ExtractRaises(its[i])
         THEN [raised |-> TRUE, articles |-> << >>, items |-> its,
               calls |-> << i >>]
         ELSE LET article == Extract(its[i], outcomes[i])
                  rest == ExtractAllLoop(
                              [its EXCEPT ![i].status = StatusAfterExtract(article)],
                              outcomes, i + 1)
              IN  [raised |-> rest.raised,
                   articles |-> << article >> \o rest.articles,
                   items |-> rest.items,
                   calls |-> << i >> \o rest.calls]

-----------------------------------------------------------------------------
(* main.py: one run of the pipeline *)

\* Collector.__init__ calls _load_state once; nothing else reads the file.
LoadsAtConstruction == 1

\* selected_items
SelectedItems == [j \in 1..Len(selected) |-> items[selected[j]]]

UrlsOf(its) == {its[i].url : i \in 1..Len(its)}

\* Mutant: the state is committed right after extraction, before synthesis,
\* rendering and notification.
NextStage_CommitsAfterExtract(p) ==
    CASE p = "curate" -> "extract"
      [] p = "extract" -> "finalize"
      [] p = "finalize" -> "save"
      [] p = "save" -> "synthesize"
      [] p = "synthesize" -> "render"
      [] p = "render" -> "notify"
      [] p = "notify" -> "done"
      [] OTHER -> p

\* The stages of main() after Stage 1, in the order main() runs them.
NextStage(p) ==
    CASE p = "curate" -> "extract"
      [] p = "extract" -> "synthesize"
      [] p = "synthesize" -> "render"
      [] p = "render" -> "notify"
      [] p = "notify" -> "finalize"
      [] p = "finalize" -> "save"
      [] p = "save" -> "done"
      [] OTHER -> p

\* Mutant: main() goes on to curation with an empty item list.
AfterCollect_NoEarlyReturn(its) == "curate"

\* Lines 110-112: main() returns when collect() gave no items.
AfterCollect(its) == IF its = << >> THEN "exited" ELSE "curate"

\* Mutant: every discovered item is marked, not only the selected ones.
ItemsToMark_AllItems(its, sel) == its

\* The items main() hands to mark_processed.
ItemsToMark(its, sel) == [j \in 1..Len(sel) |-> its[sel[j]]]

Init ==
    /\ file \in InitialFiles
    /\ sources_yaml \in SourcesFiles
    /\ curation_yaml \in CurationFiles
    /\ pc = "idle"
    /\ run = 0
    /\ state = EmptyState
    /\ sources_config = [groups |-> << >>]
    /\ items = << >>
    /\ selected = << >>
    /\ articles = << >>
    /\ failed_at = ""
    /\ loads = 0
    /\ file_at_start = file
    /\ stages = {}
    /\ lookback_days = LookbackDays
    /\ handed = {}
    /\ committed = {}
    /\ saved_urls = {}
    /\ added = DurableUrls(file)
    /\ fn_op = "none"
    /\ fn_in = << >>
    /\ fn_out = Returned(<< >>)

\* main() up to the construction of the Collector (lines 84-97): a new process,
\* which loads the state file and sources.yaml.
StartRun ==
    /\ pc \in {"idle", "done", "failed", "exited"}
    /\ run < MaxRuns
    /\ run' = run + 1
    /\ state' = LoadState(file)
    /\ loads' = LoadsAtConstruction
    /\ sources_config' = LoadSources(sources_yaml)
    /\ items' = << >>
    /\ selected' = << >>
    /\ articles' = << >>
    /\ failed_at' = ""
    /\ stages' = {}
    /\ file_at_start' = file
    /\ committed' = IF pc = "done" THEN committed \cup UrlsOf(SelectedItems)
                    ELSE committed
    /\ handed' = handed \cup UrlsOf(articles)
    /\ pc' = "collect"
    /\ UNCHANGED << file, sources_yaml, curation_yaml, lookback_days,
                    saved_urls, added, fn_op, fn_in, fn_out >>

\* Stage 1 (lines 99-112): collect(); an exception ends the run, an empty
\* result returns from main().
CollectItems ==
    /\ pc = "collect"
    /\ \E r1 \in FeedChoices("s1", sources_config),
          r2 \in FeedChoices("s2", sources_config),
          r3 \in FeedChoices("s3", sources_config) :
          LET feeds == [n \in SourceNames |->
                           IF n = "s1" THEN r1 ELSE IF n = "s2" THEN r2 ELSE r3]
              r == Collect(sources_config, feeds, state, lookback_days)
          IN  /\ state' = StateAfterCollect(state, r)
              /\ IF r.raised
                 THEN /\ pc' = "failed"
                      /\ failed_at' = r.at
                      /\ UNCHANGED << items, stages >>
                 ELSE /\ items' = r.items
                      /\ pc' = AfterCollect(r.items)
                      /\ stages' = stages \cup {"collect"}
                      /\ UNCHANGED failed_at
    /\ UNCHANGED << file, sources_yaml, curation_yaml, run, sources_config,
                    selected, articles, loads, file_at_start, lookback_days,
                    handed, committed, saved_urls, added,
                    fn_op, fn_in, fn_out >>

\* Stage 2 (lines 121-143): curate(), then every selected item is marked
\* SELECTED; an empty selection returns from main().
CurateItems ==
    /\ pc = "curate"
    /\ LET c == Curate(items, LoadConfig(curation_yaml))
       IN  IF c.raised
           THEN /\ pc' = "failed"
                /\ failed_at' = c.at
                /\ UNCHANGED << items, selected, stages >>
           ELSE /\ selected' = c.selected
                /\ items' = [i \in 1..Len(items) |->
                                IF i \in Range(c.selected)
                                THEN [items[i] EXCEPT !.status = SELECTED]
                                ELSE items[i]]
                /\ pc' = IF c.selected = << >> THEN "exited" ELSE NextStage(pc)
                /\ stages' = stages \cup {"curate"}
                /\ UNCHANGED failed_at
    /\ UNCHANGED << file, sources_yaml, curation_yaml, run, state, sources_config,
                    articles, loads, file_at_start, lookback_days,
                    handed, committed, saved_urls, added,
                    fn_op, fn_in, fn_out >>

\* Stage 3 (lines 152-153): extract_all(selected_items).
ExtractAll ==
    /\ pc = "extract"
    /\ \E outcomes \in [1..Len(selected) -> ExtractOutcomes] :
          LET arts == [j \in 1..Len(selected) |->
                          Extract(items[selected[j]], outcomes[j])]
          IN  /\ articles' = arts
              /\ items' = [i \in 1..Len(items) |->
                              IF \E j \in 1..Len(selected) : selected[j] = i
                              THEN [items[i] EXCEPT !.status =
                                      StatusAfterExtract(
                                        arts[CHOOSE j \in 1..Len(selected) :
                                                 selected[j] = i])]
                              ELSE items[i]]
    /\ pc' = NextStage(pc)
    /\ stages' = stages \cup {"extract"}
    /\ UNCHANGED << file, sources_yaml, curation_yaml, run, state, sources_config,
                    selected, failed_at, loads, file_at_start, lookback_days,
                    handed, committed, saved_urls, added, fn_op, fn_in, fn_out >>

\* Stages 4, 5, 5b and 6 (lines 169-242): synthesis, rendering and
\* notification read the items and articles and write their own outputs.
Downstream ==
    /\ pc \in {"synthesize", "render", "notify"}
    /\ pc' = NextStage(pc)
    /\ stages' = stages \cup {pc}
    /\ UNCHANGED << file, sources_yaml, curation_yaml, run, state, sources_config,
                    items, selected, articles, failed_at, loads, file_at_start,
                    lookback_days, handed, committed, saved_urls, added,
                    fn_op, fn_in, fn_out >>

\* Finalize (line 248): collector.mark_processed(selected_items).
MarkProcessed ==
    /\ pc = "finalize"
    /\ state' = [MarkUrls(state, ItemsToMark(items, selected))
                    EXCEPT !.last_run = run]
    /\ added' = added \cup UrlsOf(ItemsToMark(items, selected))
    /\ pc' = NextStage(pc)
    /\ UNCHANGED << file, sources_yaml, curation_yaml, run, sources_config,
                    items, selected, articles, failed_at, loads, file_at_start,
                    stages, lookback_days, handed, committed, saved_urls,
                    fn_op, fn_in, fn_out >>

\* Finalize (line 249): collector.save_state().
SaveState ==
    /\ pc = "save"
    /\ file' \in SavedFiles(state)
    /\ saved_urls' = saved_urls \cup state.processed_urls
    /\ pc' = NextStage(pc)
    /\ UNCHANGED << sources_yaml, curation_yaml, run, state, sources_config,
                    items, selected, articles, failed_at, loads, file_at_start,
                    stages, lookback_days, handed, committed, added,
                    fn_op, fn_in, fn_out >>

\* The except of main() (lines 270-273): a stage raised, sys.exit(1).
Fail ==
    /\ pc \in {"curate", "extract", "synthesize", "render", "notify", "save"}
    /\ failed_at' = pc
    /\ pc' = "failed"
    /\ UNCHANGED << file, sources_yaml, curation_yaml, run, state, sources_config,
                    items, selected, articles, loads, file_at_start, stages,
                    lookback_days, handed, committed, saved_urls, added,
                    fn_op, fn_in, fn_out >>

Next ==
    \/ StartRun
    \/ CollectItems
    \/ CurateItems
    \/ ExtractAll
    \/ Downstream
    \/ MarkProcessed
    \/ SaveState
    \/ Fail

Spec == Init /\ [][Next]_vars

-----------------------------------------------------------------------------
(* SpecFn: _deduplicate and _filter_new on arbitrary item lists, as the tests *)
(* of tests/test_collector.py call them on a freshly constructed Collector.   *)

\* The items of the input lists: ids shared and not, dates inside and outside
\* the window, on its edge, absent and naive.
ItemPool ==
    { Item("h1", T_AI_tooling, "u1", Aware(24), "s1", S_ai, "A", PENDING),
      Item("h1", T_AI_dup, "u1", Aware(240), "s2", S_ai, "B", PENDING),
      Item("h2", T_Go_release, "u2", NoDate, "s1", S_empty, "A", PENDING),
      Item("h1", T_Ad_for_AI, "u3", Aware(168), "s1", S_ai, "A", PENDING),
      Item("h2", T_Rust_async, "u2", Naive(12), "s2", S_ai, "B", PENDING) }

\* The lookback windows tried (days): one day, the default, a month.
Lookbacks == {1, LookbackDays, 30}

InitFn ==
    /\ file = MissingFile
    /\ sources_yaml = [exists |-> FALSE, groups |-> << >>]
    /\ curation_yaml = [exists |-> FALSE, data |-> DefaultCuration]
    /\ pc = "idle"
    /\ run = 0
    /\ \E urls \in SUBSET URLS : state = [EmptyState EXCEPT !.processed_urls = urls]
    /\ sources_config = [groups |-> << >>]
    /\ items = << >>
    /\ selected = << >>
    /\ articles = << >>
    /\ failed_at = ""
    /\ loads = 0
    /\ file_at_start = file
    /\ stages = {}
    /\ lookback_days \in Lookbacks
    /\ handed = {}
    /\ committed = {}
    /\ saved_urls = {}
    /\ added = state.processed_urls
    /\ fn_op = "none"
    /\ fn_in \in SeqsUpTo(ItemPool, MaxListLen)
    /\ fn_out = Returned(<< >>)

\* collector._deduplicate(items)
FnDeduplicate ==
    /\ fn_op = "none"
    /\ fn_op' = "deduplicate"
    /\ fn_out' = Returned(Deduplicate(fn_in))
    /\ UNCHANGED << file, sources_yaml, curation_yaml, pc, run, state,
                    sources_config, items, selected, articles, failed_at, loads,
                    file_at_start, stages, lookback_days, handed,
                    committed, saved_urls, added, fn_in >>

\* collector._filter_new(items)
FnFilterNew ==
    /\ fn_op = "none"
    /\ fn_op' = "filter_new"
    /\ fn_out' = FilterNew(fn_in, state, lookback_days)
    /\ UNCHANGED << file, sources_yaml, curation_yaml, pc, run, state,
                    sources_config, items, selected, articles, failed_at, loads,
                    file_at_start, stages, lookback_days, handed,
                    committed, saved_urls, added, fn_in >>

NextFn ==
    \/ FnDeduplicate
    \/ FnFilterNew

SpecFn == InitFn /\ [][NextFn]_vars

-----------------------------------------------------------------------------
(* SpecStore: the state store. Collectors are constructed over one state     *)
(* file (each construction loads it), URLs are marked processed and the       *)
(* state is saved, in any order; fn_op is the last operation and pc the one   *)
(* before it.                                                                 *)

\* The state files the first Collector may find: the files of InitialFiles, a
\* JSON array, a list written by hand with a URL twice, a file of an earlier
\* run.
StoreFiles ==
    InitialFiles \cup
    { [MissingFile EXCEPT !.kind = "notobject"],
      [MissingFile EXCEPT !.kind = "ok", !.processed_urls = << "u1", "u1" >>],
      [MissingFile EXCEPT !.kind = "ok", !.last_run = 1,
                          !.processed_urls = << "u3", "u1" >>] }

InitStore ==
    /\ file \in StoreFiles
    /\ sources_yaml = [exists |-> FALSE, groups |-> << >>]
    /\ curation_yaml = [exists |-> FALSE, data |-> DefaultCuration]
    /\ pc = "none"
    /\ run = 0
    /\ state = EmptyState
    /\ sources_config = [groups |-> << >>]
    /\ items = << >>
    /\ selected = << >>
    /\ articles = << >>
    /\ failed_at = ""
    /\ loads = 0
    /\ file_at_start = file
    /\ stages = {}
    /\ lookback_days = LookbackDays
    /\ handed = {}
    /\ committed = {}
    /\ saved_urls = {}
    /\ added = {}
    /\ fn_op = "none"
    /\ fn_in = << >>
    /\ fn_out = Returned(<< >>)

\* Collector(sources_path, state_path): _load_state
StoreLoad ==
    /\ state' = LoadState(file)
    /\ pc' = fn_op
    /\ fn_op' = "load"
    /\ UNCHANGED << file, sources_yaml, curation_yaml, run, sources_config,
                    items, selected, articles, failed_at, loads, file_at_start,
                    stages, lookback_days, handed, committed, saved_urls, added,
                    fn_in, fn_out >>

\* collector.mark_processed([item]) for an item with url u
StoreMark ==
    /\ fn_op # "none"
    /\ \E u \in URLS :
          state' = [MarkUrls(state, << [url |-> u] >>) EXCEPT !.last_run = 1]
    /\ pc' = fn_op
    /\ fn_op' = "mark"
    /\ UNCHANGED << file, sources_yaml, curation_yaml, run, sources_config,
                    items, selected, articles, failed_at, loads, file_at_start,
                    stages, lookback_days, handed, committed, saved_urls, added,
                    fn_in, fn_out >>

\* collector.save_state()
StoreSave ==
    /\ fn_op # "none"
    /\ file' \in SavedFiles(state)
    /\ saved_urls' = state.processed_urls
    /\ pc' = fn_op
    /\ fn_op' = "save"
    /\ UNCHANGED << sources_yaml, curation_yaml, run, state, sources_config,
                    items, selected, articles, failed_at, loads, file_at_start,
                    stages, lookback_days, handed, committed, added,
                    fn_in, fn_out >>

NextStore ==
    \/ StoreLoad
    \/ StoreMark
    \/ StoreSave

SpecStore == InitStore /\ [][NextStore]_vars

-----------------------------------------------------------------------------
(* SpecCur: the Curator on arbitrary item lists, as the tests of              *)
(* tests/test_curator.py construct a Curator over a curation.yaml and call   *)
(* it. items is the input list, selected the indices of the items returned.  *)

\* The items of the input lists: two groups, titles on both sides of
\* min_title_length, texts matching the allowlist, the denylist, both and
\* neither, equal and different scores, dates recent, old, absent and naive.
CurPool ==
    { Item("h1", T_AI_tooling, "u1", Aware(0), "s1", S_ai, "A", PENDING),
      Item("h2", T_Go_release, "u2", Aware(12), "s1", S_empty, "A", PENDING),
      Item("h1", T_Ad_for_AI, "u3", NoDate, "s1", S_ai, "A", PENDING),
      Item("h4", T_AI_dup, "u4", Aware(30), "s1", S_long, "A", PENDING),
      Item("h4", T_Rust_async, "u4", Aware(12), "s1", S_empty, "A", PENDING),
      Item("h1", T_Rust_async, "u1", Aware(12), "s2", S_ai, "B", PENDING),
      Item("h2", T_Go_release, "u2", Naive(12), "s2", S_empty, "B", PENDING),
      Item("h4", T_Rust_async, "u4", NoDate, "s2", S_long, "B", PENDING) }

\* The configurations curation.yaml may hold.
CurConfigs ==
    { CurationConfig(n, allow, deny, m) :
        n \in {1, 2},
        allow \in { << >>, << << "A", "I" >> >>,
                    << << "A", "I" >>, << "g", "o" >> >> },
        deny \in { << >>, << << "A", "d" >> >> },
        m \in {3, 10} }

InitCur ==
    /\ file = MissingFile
    /\ sources_yaml = [exists |-> FALSE, groups |-> << >>]
    /\ curation_yaml \in {[exists |-> FALSE, data |-> DefaultCuration]}
                            \cup {[exists |-> TRUE, data |-> c] : c \in CurConfigs}
    /\ pc = "idle"
    /\ run = 0
    /\ state = EmptyState
    /\ sources_config = [groups |-> << >>]
    /\ items \in SeqsUpTo(CurPool, MaxListLen)
    /\ selected = << >>
    /\ articles = << >>
    /\ failed_at = ""
    /\ loads = 0
    /\ file_at_start = file
    /\ stages = {}
    /\ lookback_days = LookbackDays
    /\ handed = {}
    /\ committed = {}
    /\ saved_urls = {}
    /\ added = {}
    /\ fn_op = "none"
    /\ fn_in = << >>
    /\ fn_out = Returned(<< >>)

\* Curator(config_path)._apply_filters(items)
CurApplyFilters ==
    /\ fn_op = "none"
    /\ fn_op' = "apply_filters"
    /\ selected' = ApplyFilters(items, LoadConfig(curation_yaml))
    /\ fn_out' = Returned(<< >>)
    /\ UNCHANGED << file, sources_yaml, curation_yaml, pc, run, state,
                    sources_config, items, articles, failed_at, loads,
                    file_at_start, stages, lookback_days, handed, committed,
                    saved_urls, added, fn_in >>

\* Curator(config_path).curate(items)
CurCurate ==
    /\ fn_op = "none"
    /\ fn_op' = "curate"
    /\ LET c == Curate(items, LoadConfig(curation_yaml))
       IN  /\ selected' = c.selected
           /\ fn_out' = IF c.raised THEN Raised(c.at) ELSE Returned(<< >>)
    /\ UNCHANGED << file, sources_yaml, curation_yaml, pc, run, state,
                    sources_config, items, articles, failed_at, loads,
                    file_at_start, stages, lookback_days, handed, committed,
                    saved_urls, added, fn_in >>

NextCur ==
    \/ CurApplyFilters
    \/ CurCurate

SpecCur == InitCur /\ [][NextCur]_vars

-----------------------------------------------------------------------------
(* SpecScore: _score_items applied to arbitrary item lists under allowlists  *)
(* that may name a substring more than once. fn_out holds the (item, score)  *)
(* pairs returned, scores times 12.                                          *)

\* The allowlists of curation.yaml: empty, one entry, two entries, the same
\* entry twice, the same substring in two spellings.
ScoreAllowlists ==
    { << >>,
      << << "A", "I" >> >>,
      << << "A", "I" >>, << "g", "o" >> >>,
      << << "A", "I" >>, << "A", "I" >> >>,
      << << "A", "I" >>, << "a", "i" >> >> }

ScoreConfigs ==
    {CurationConfig(5, allow, << >>, 10) : allow \in ScoreAllowlists}

InitScore ==
    /\ file = MissingFile
    /\ sources_yaml = [exists |-> FALSE, groups |-> << >>]
    /\ curation_yaml \in {[exists |-> TRUE, data |-> c] : c \in ScoreConfigs}
    /\ pc = "idle"
    /\ run = 0
    /\ state = EmptyState
    /\ sources_config = [groups |-> << >>]
    /\ items \in SeqsUpTo(CurPool, MaxListLen)
    /\ selected = << >>
    /\ articles = << >>
    /\ failed_at = ""
    /\ loads = 0
    /\ file_at_start = file
    /\ stages = {}
    /\ lookback_days = LookbackDays
    /\ handed = {}
    /\ committed = {}
    /\ saved_urls = {}
    /\ added = {}
    /\ fn_op = "none"
    /\ fn_in = << >>
    /\ fn_out = Returned(<< >>)

\* Curator(config_path)._score_items(items)
ScoreScoreItems ==
    /\ fn_op = "none"
    /\ fn_op' = "_score_items"
    /\ fn_out' = IF \E i \in 1..Len(items) : ScoreRaises(items[i])
                 THEN Raised("_score_items")
                 ELSE Returned(ScoreItems(items, [i \in 1..Len(items) |-> i],
                                          LoadConfig(curation_yaml)))
    /\ UNCHANGED << file, sources_yaml, curation_yaml, pc, run, state,
                    sources_config, items, selected, articles, failed_at, loads,
                    file_at_start, stages, lookback_days, handed, committed,
                    saved_urls, added, fn_in >>

NextScore == ScoreScoreItems

SpecScore == InitScore /\ [][NextScore]_vars

-----------------------------------------------------------------------------
(* SpecExt: the Reader on arbitrary lists of selected items, as the tests of *)
(* tests/test_reader.py construct a Reader and call it. items is the input   *)
(* list (each position its own Item object), fn_in the way the stages end    *)
(* for each item, articles the value returned, selected the positions        *)
(* extract was called with, in call order.                                   *)

\* The items of the input lists: two URLs, a second item with the URL of the
\* first, an item whose URL urlparse rejects.
ExtPool ==
    { Item("h1", T_AI_tooling, "u1", Aware(12), "s1", S_ai, "A", SELECTED),
      Item("h2", T_Go_release, "u2", NoDate, "s1", S_empty, "A", SELECTED),
      Item("h1", T_AI_dup, "u1", Aware(30), "s2", S_ai, "B", SELECTED),
      Item("h0", T_Rust_async, BadUrl, NoDate, "s2", S_ai, "B", SELECTED) }

InitExt ==
    /\ file = MissingFile
    /\ sources_yaml = [exists |-> FALSE, groups |-> << >>]
    /\ curation_yaml = [exists |-> FALSE, data |-> DefaultCuration]
    /\ pc = "idle"
    /\ run = 0
    /\ state = EmptyState
    /\ sources_config = [groups |-> << >>]
    /\ items \in SeqsUpTo(ExtPool, MaxListLen)
    /\ selected = << >>
    /\ articles = << >>
    /\ failed_at = ""
    /\ loads = 0
    /\ file_at_start = file
    /\ stages = {}
    /\ lookback_days = LookbackDays
    /\ handed = {}
    /\ committed = {}
    /\ saved_urls = {}
    /\ added = {}
    /\ fn_op = "none"
    /\ fn_in = << >>
    /\ fn_out = Returned(<< >>)

\* reader.extract(items[1])
ExtExtract ==
    /\ fn_op = "none"
    /\ items # << >>
    /\ fn_op' = "extract"
    /\ \E outcome \in StageOutcomes :
          /\ fn_in' = << outcome >>
          /\ IF ExtractRaises(items[1])
             THEN /\ fn_out' = Raised("from_item")
                  /\ articles' = << >>
             ELSE /\ fn_out' = Returned(<< >>)
                  /\ articles' = << Extract(items[1], outcome) >>
    /\ selected' = << 1 >>
    /\ UNCHANGED << file, sources_yaml, curation_yaml, pc, run, state,
                    sources_config, items, failed_at, loads, file_at_start,
                    stages, lookback_days, handed, committed, saved_urls,
                    added >>

\* reader.extract_all(items)
ExtExtractAll ==
    /\ fn_op = "none"
    /\ fn_op' = "extract_all"
    /\ \E outcomes \in [1..Len(items) -> StageOutcomes] :
          LET r == ExtractAllLoop(items, outcomes, 1)
          IN  /\ fn_in' = outcomes
              /\ items' = r.items
              /\ selected' = r.calls
              /\ articles' = IF r.raised THEN << >> ELSE r.articles
              /\ fn_out' = IF r.raised THEN Raised("from_item")
                           ELSE Returned(<< >>)
    /\ UNCHANGED << file, sources_yaml, curation_yaml, pc, run, state,
                    sources_config, failed_at, loads, file_at_start,
                    stages, lookback_days, handed, committed, saved_urls,
                    added >>

\* Mutant: the content is looked up by URL alone, whatever the item's status.
SynthContent_IgnoresStatus(it, arts) ==
    IF \E j \in 1..Len(arts) : arts[j].success /\ arts[j].url = it.url
    THEN [kind |-> "summary", text |-> << >>, warning |-> FALSE]
    ELSE [kind |-> "snippet", text |-> it.snippet, warning |-> FALSE]

\* synthesizer.py, NoLLMAdapter._generate_from_template, lines 90-110: what
\* the template shows as the content of an item. article_map holds the
\* successful articles by URL; a successful article has extracted_text.
SynthContent(it, arts) ==
    IF it.status = EXTRACT_FAILED
    THEN [kind |-> "snippet", text |-> it.snippet, warning |-> TRUE]
    ELSE IF \E j \in 1..Len(arts) : arts[j].success /\ arts[j].url = it.url
         THEN [kind |-> "summary", text |-> << >>, warning |-> FALSE]
         ELSE [kind |-> "snippet", text |-> it.snippet, warning |-> FALSE]

\* NoLLMAdapter.synthesize(items, articles) after extract_all returned:
\* fn_out holds the content shown for each item.
ExtSynthesize ==
    /\ fn_op = "extract_all"
    /\ ~fn_out.raised
    /\ fn_op' = "synthesize"
    /\ fn_out' = Returned([i \in 1..Len(items) |-> SynthContent(items[i], articles)])
    /\ UNCHANGED << file, sources_yaml, curation_yaml, pc, run, state,
                    sources_config, items, selected, articles, failed_at, loads,
                    file_at_start, stages, lookback_days, handed, committed,
                    saved_urls, added, fn_in >>

NextExt ==
    \/ ExtExtract
    \/ ExtExtractAll
    \/ ExtSynthesize

SpecExt == InitExt /\ [][NextExt]_vars

-----------------------------------------------------------------------------
(* reader.py, _extract_content: the chain of content regions. A page is     *)
(* described by what each stage finds in it: readability is the outcome of   *)
(* Document(html).summary() (raising, or the length of the markup returned), *)
(* soup_raises whether BeautifulSoup(html, "lxml") or a later call of the    *)
(* fallback raises, elements the length of the stripped visible text of the  *)
(* element select_one finds for a selector (a selector outside the domain    *)
(* selects nothing), body whether soup.find("body") finds a body.            *)

\* Number of container elements a page holds at most.
MaxElements == 2

\* reader.py:177-186
content_selectors ==
    << "article", "[role=\"main\"]", ".post-content", ".article-content",
       ".entry-content", ".content", "main", "#content" >>

\* reader.py:161 and 190: the length a region must exceed.
MinContentLen == 200

Readabilities ==
    {[raises |-> TRUE, len |-> 0]}
        \cup [raises : {FALSE}, len : {0, MinContentLen, MinContentLen + 1}]

ElementSets ==
    {S \in SUBSET (1..Len(content_selectors)) : Cardinality(S) <= MaxElements}

Doms ==
    UNION {[readability : Readabilities, soup_raises : BOOLEAN,
            elements : [S -> {MinContentLen, MinContentLen + 1}],
            body : BOOLEAN] : S \in ElementSets}

\* The value _extract_content returns, named by the stage it came from:
\* "readability", "selector" (with the selector's position), "body", or
\* "none" for None.
Content(stage, k) == [stage |-> stage, selector |-> k]
NoContent == Content("none", 0)

\* Lines 155-164: content and len(content) > 200; an exception is logged and
\* the fallback follows.
ReadabilityAccepted(dom) ==
    ~dom.readability.raises /\ dom.readability.len > MinContentLen

\* Mutant: any element a selector finds is accepted, whatever its length.
SelectorAccepted_Present(dom, k) == k \in DOMAIN dom.elements

\* Line 190: element and len(element.get_text(strip=True)) > 200
SelectorAccepted(dom, k) ==
    k \in DOMAIN dom.elements /\ dom.elements[k] > MinContentLen

RECURSIVE SelectorLoop(_, _)
\* Lines 188-196: the loop over content_selectors from position k on, then the
\* body.
SelectorLoop(dom, k) ==
    IF k > Len(content_selectors)
    THEN IF dom.body THEN Content("body", 0) ELSE NoContent
    ELSE IF SelectorAccepted(dom, k)
         THEN Content("selector", k)
         ELSE SelectorLoop(dom, k + 1)

\* _extract_content(html, url)
ExtractContent(dom) ==
    IF ReadabilityAccepted(dom) THEN Content("readability", 0)
    ELSE IF dom.soup_raises THEN NoContent
    ELSE SelectorLoop(dom, 1)

-----------------------------------------------------------------------------
(* SpecContent: _extract_content applied to every page description. fn_in is *)
(* the page, fn_out the content returned.                                    *)

InitContent ==
    /\ file = MissingFile
    /\ sources_yaml = [exists |-> FALSE, groups |-> << >>]
    /\ curation_yaml = [exists |-> FALSE, data |-> DefaultCuration]
    /\ pc = "idle"
    /\ run = 0
    /\ state = EmptyState
    /\ sources_config = [groups |-> << >>]
    /\ items = << >>
    /\ selected = << >>
    /\ articles = << >>
    /\ failed_at = ""
    /\ loads = 0
    /\ file_at_start = file
    /\ stages = {}
    /\ lookback_days = LookbackDays
    /\ handed = {}
    /\ committed = {}
    /\ saved_urls = {}
    /\ added = {}
    /\ fn_op = "none"
    /\ fn_in \in Doms
    /\ fn_out = NoContent

\* reader._extract_content(html, url)
ContentExtract ==
    /\ fn_op = "none"
    /\ fn_op' = "_extract_content"
    /\ fn_out' = ExtractContent(fn_in)
    /\ UNCHANGED << file, sources_yaml, curation_yaml, pc, run, state,
                    sources_config, items, selected, articles, failed_at, loads,
                    file_at_start, stages, lookback_days, handed, committed,
                    saved_urls, added, fn_in >>

NextContent == ContentExtract

SpecContent == InitContent /\ [][NextContent]_vars

-----------------------------------------------------------------------------
(* reader.py, extract in detail: the fetch, the conversion to text, the      *)
(* length guard, the word count and the files written. Texts are tuples of   *)
(* one-character strings over "w" (any visible character), " " and "\n".     *)

\* The characters str.strip() and str.split() treat as whitespace.
Whitespace == {" ", "\n", "\t"}

\* re.sub(r"\n{3,}", "\n\n", markdown), line 215: of a run of newlines the
\* first two are kept.
CollapseNewlines(t) ==
    KeepAt(t, {i \in 1..Len(t) :
                 ~(t[i] = "\n" /\ i >= 3 /\ t[i - 1] = "\n" /\ t[i - 2] = "\n")})

\* re.sub(r" +", " ", markdown), line 216: of a run of spaces the first is
\* kept.
CollapseSpaces(t) ==
    KeepAt(t, {i \in 1..Len(t) : ~(t[i] = " " /\ i >= 2 /\ t[i - 1] = " ")})

\* str.strip(): from the first to the last character that is not whitespace.
Strip(t) ==
    LET visible == {i \in 1..Len(t) : t[i] \notin Whitespace}
    IN  IF visible = {} THEN << >>
        ELSE SubSeq(t, CHOOSE i \in visible : \A k \in visible : i <= k,
                       CHOOSE i \in visible : \A k \in visible : k <= i)

\* str.split(): the words of t, each from a position that starts a word to
\* the position that ends it.
Split(t) ==
    LET positions == [i \in 1..Len(t) |-> i]
        starts == KeepAt(positions, {i \in 1..Len(t) :
                     t[i] \notin Whitespace /\ (i = 1 \/ t[i - 1] \in Whitespace)})
        ends == KeepAt(positions, {i \in 1..Len(t) :
                     t[i] \notin Whitespace
                        /\ (i = Len(t) \/ t[i + 1] \in Whitespace)})
    IN  [j \in 1..Len(starts) |-> SubSeq(t, starts[j], ends[j])]

\* What markdownify's md(html, ...) gives for the content of a page: it
\* raises, or returns a text.
RawTexts ==
    { << >>,
      Rep(" ", 120),
      Rep("w", 99),
      Rep("w", 100),
      << " ", " " >> \o Rep("w", 99) \o << "\n", "\n", "\n" >>,
      Rep("w", 49) \o << " " >> \o Rep("w", 50),
      Rep("w", 49) \o Rep(" ", 4) \o Rep("w", 48),
      Rep("w", 50) \o Rep("\n", 4) \o Rep("w", 48),
      [i \in 1..101 |-> IF i % 2 = 1 THEN "w" ELSE " "] }

Raws ==
    {[raises |-> TRUE, text |-> << >>]} \cup [raises : {FALSE}, text : RawTexts]

\* _to_markdown(html), lines 203-223
ToMarkdown(raw) ==
    IF raw.raises THEN << >>
    ELSE Strip(CollapseSpaces(CollapseNewlines(raw.text)))

\* reader.py:102: the number of characters below which a text is too short.
MinTextLen == 100

\* Mutant: only an empty text is too short.
TooShort_EmptyOnly(markdown) == markdown = << >>

\* Line 102: not markdown or len(markdown.strip()) < 100
TooShort(markdown) ==
    markdown = << >> \/ Len(Strip(markdown)) < MinTextLen

\* How requests.get(url, timeout=..., allow_redirects=True) ends: a
\* ConnectionError, a Timeout, or a response with its status, Content-Type
\* header ("" when absent) and text. A redirect with a Location header is
\* followed, so a 3xx status seen here is one that could not be followed.
Statuses == {200, 300, 404, 503}

ContentTypes ==
    {"text/html; charset=utf-8", "application/xhtml+xml", "application/json", ""}

Fetches ==
    {[kind |-> k, status |-> 0, content_type |-> "", text |-> ""] :
        k \in {"ConnectionError", "Timeout"}}
      \cup [kind : {"response"}, status : Statuses,
            content_type : ContentTypes, text : {"", "<html>"}]

\* response.raise_for_status(), line 134: HTTPError for 400..599 only.
RaiseForStatus(f) == f.status >= 400 /\ f.status < 600

\* Line 138: "text/html" in content_type or "application/xhtml" in it
HtmlFamily(content_type) ==
    content_type \in {"text/html; charset=utf-8", "application/xhtml+xml"}

\* _fetch_html(url), lines 121-146; "" stands for both None and an empty
\* text, which line 90 treats alike.
FetchHtml(f) ==
    IF f.kind # "response" THEN ""
    ELSE IF RaiseForStatus(f) THEN ""
    ELSE IF ~HtmlFamily(f.content_type) THEN ""
    ELSE f.text

\* urlparse(url).path for the URLs of the items extracted here: three URLs
\* with one path (another host, a query string), a path with capitals, an
\* underscore and a trailing slash, the root, a second post, two paths that
\* differ after their 50th character.
UrlPath(url) ==
    CASE url \in {"https://a.com/blog/post-1", "https://b.com/blog/post-1",
                  "https://a.com/blog/post-1?page=2"} ->
            << "/", "b", "l", "o", "g", "/", "p", "o", "s", "t", "-", "1" >>
      [] url = "https://a.com/AI/Grid_1/" ->
            << "/", "A", "I", "/", "G", "r", "i", "d", "_", "1", "/" >>
      [] url = "https://a.com/" -> << "/" >>
      [] url = "https://a.com/blog/post-2" ->
            << "/", "b", "l", "o", "g", "/", "p", "o", "s", "t", "-", "2" >>
      [] url = "https://a.com/xxxxxxxxxxxxxxxxxxxxxxxxxxxxxxxxxxxxxxxxxxxxxxxxxx1" ->
            << "/" >> \o Rep("x", 50) \o << "1" >>
      [] url = "https://a.com/xxxxxxxxxxxxxxxxxxxxxxxxxxxxxxxxxxxxxxxxxxxxxxxxxx2" ->
            << "/" >> \o Rep("x", 50) \o << "2" >>

RECURSIVE StripSlashes(_)
\* path.strip("/")
StripSlashes(p) ==
    IF p # << >> /\ Head(p) = "/" THEN StripSlashes(Tail(p))
    ELSE IF p # << >> /\ p[Len(p)] = "/"
         THEN StripSlashes(SubSeq(p, 1, Len(p) - 1))
         ELSE p

\* The characters re.sub(r"[^a-z0-9-]", "", ...) keeps.
SlugChars ==
    { "a", "b", "c", "d", "e", "f", "g", "h", "i", "j", "k", "l", "m", "n",
      "o", "p", "q", "r", "s", "t", "u", "v", "w", "x", "y", "z", "0", "1",
      "2", "3", "4", "5", "6", "7", "8", "9", "-" }

\* models.py:87: the slug may be 50 characters long.
MaxSlugLen == 50

\* Article.from_item, models.py:85-87: the path without its outer slashes,
\* "/" replaced by "-", lower-cased, the other characters removed, cut to 50
\* characters; the fingerprint of the URL (kept as one element) when nothing
\* is left.
Slug(url) ==
    LET path == StripSlashes(UrlPath(url))
        dashed == [i \in 1..Len(path) |-> IF path[i] = "/" THEN "-" ELSE path[i]]
        kept == SelectSeq(lower(dashed), LAMBDA c : c \in SlugChars)
        cut == SubSeq(kept, 1, IF Len(kept) < MaxSlugLen THEN Len(kept)
                                ELSE MaxSlugLen)
    IN  IF cut # << >> THEN cut ELSE << url_hash(url) >>

\* Article.from_item(item): the Article before extraction.
FromItem(it) ==
    [url |-> it.url, slug |-> Slug(it.url), title |-> it.title,
     extracted_text |-> << >>, extracted_at |-> FALSE, success |-> FALSE,
     error |-> "", word_count |-> 0]

\* The files of the articles directory are records: the slug they are named
\* by, their kind ("md" for <slug>.md, "meta" for <slug>.meta.json) and what
\* they hold.
MdFile(article) ==
    [slug |-> article.slug, kind |-> "md", holds |-> article.extracted_text,
     url |-> article.url]

MetaFile(article) ==
    [slug |-> article.slug, kind |-> "meta",
     holds |-> [url |-> article.url, title |-> article.title,
                slug |-> article.slug, word_count |-> article.word_count,
                extracted_at |-> article.extracted_at,
                success |-> article.success, error |-> article.error],
     url |-> article.url]

\* path.write_text(...): the file replaces the one of the same name.
WriteFile(dir, f) ==
    {g \in dir : ~(g.slug = f.slug /\ g.kind = f.kind)} \cup {f}

\* How _save_article may end: both files written, the write of the markdown
\* file raising (OSError), the write of the metadata file raising.
SaveOutcomes == {"ok", "md_fails", "meta_fails"}

\* _save_article(article), lines 225-246: the directory afterwards.
SaveArticle(dir, article, save) ==
    CASE save = "ok" -> WriteFile(WriteFile(dir, MdFile(article)), MetaFile(article))
      [] save = "md_fails" -> dir
      [] save = "meta_fails" -> WriteFile(dir, MdFile(article))

\* Lines 90-104: the early returns of extract() leave the directory as it is.
SavedOnFailure(dir, article) == dir

\* The pages extract() is applied to: how the fetch ends, what the page
\* holds, what the conversion gives, how the save ends.
PageDoms ==
    { [readability |-> [raises |-> FALSE, len |-> MinContentLen + 1],
       soup_raises |-> FALSE, elements |-> << >>, body |-> TRUE],
      [readability |-> [raises |-> TRUE, len |-> 0],
       soup_raises |-> FALSE, elements |-> << MinContentLen + 1 >>, body |-> TRUE],
      [readability |-> [raises |-> FALSE, len |-> 0],
       soup_raises |-> FALSE, elements |-> << MinContentLen >>, body |-> TRUE],
      [readability |-> [raises |-> TRUE, len |-> 0],
       soup_raises |-> TRUE, elements |-> << >>, body |-> TRUE] }

Pages == [fetch : Fetches, dom : PageDoms, raw : Raws, save : SaveOutcomes]

\* extract(item) on a page, lines 75-119, when from_item returns: the Article
\* returned, the articles directory afterwards and the stages performed.
ExtractPage(it, page, dir) ==
    LET article == FromItem(it)
        html == FetchHtml(page.fetch)
        content == ExtractContent(page.dom)
        markdown == ToMarkdown(page.raw)
        failed(error, calls) ==
            LET a == [article EXCEPT !.error = error]
            IN  [article |-> a, dir |-> SavedOnFailure(dir, a), calls |-> calls]
    IN  IF html = ""
        THEN failed("Failed to fetch HTML", << "_fetch_html" >>)
        ELSE IF content = NoContent
        THEN failed("Failed to extract content",
                    << "_fetch_html", "_extract_content" >>)
        ELSE IF TooShort(markdown)
        THEN failed("Extracted content too short",
                    << "_fetch_html", "_extract_content", "_to_markdown" >>)
        ELSE LET a == [article EXCEPT !.extracted_text = markdown,
                                      !.word_count = Len(Split(markdown)),
                                      !.extracted_at = TRUE,
                                      !.success = TRUE]
             IN  [article |-> IF page.save = "ok" THEN a
                              ELSE [a EXCEPT !.error = "str(e)"],
                  dir |-> SaveArticle(dir, a, page.save),
                  calls |-> << "_fetch_html", "_extract_content",
                               "_to_markdown", "_save_article" >>]

-----------------------------------------------------------------------------
(* SpecPage: extract applied to one item and every page. items holds the     *)
(* item, fn_in the page, fn_out the Article returned with the articles       *)
(* directory and the stages performed.                                       *)

PagePool ==
    { Item("h5", T_AI_tooling, "https://a.com/blog/post-1", Aware(12), "s1",
           S_ai, "A", SELECTED),
      Item("h9", T_Go_release, "https://a.com/", NoDate, "s1", S_empty, "A",
           SELECTED) }

InitPage ==
    /\ file = MissingFile
    /\ sources_yaml = [exists |-> FALSE, groups |-> << >>]
    /\ curation_yaml = [exists |-> FALSE, data |-> DefaultCuration]
    /\ pc = "idle"
    /\ run = 0
    /\ state = EmptyState
    /\ sources_config = [groups |-> << >>]
    /\ \E it \in PagePool : items = << it >>
    /\ selected = << >>
    /\ articles = << >>
    /\ failed_at = ""
    /\ loads = 0
    /\ file_at_start = file
    /\ stages = {}
    /\ lookback_days = LookbackDays
    /\ handed = {}
    /\ committed = {}
    /\ saved_urls = {}
    /\ added = {}
    /\ fn_op = "none"
    /\ fn_in \in Pages
    /\ fn_out = [article |-> FromItem(items[1]), dir |-> {}, calls |-> << >>]

\* reader.extract(items[1])
PageExtract ==
    /\ fn_op = "none"
    /\ fn_op' = "extract"
    /\ fn_out' = ExtractPage(items[1], fn_in, fn_out.dir)
    /\ UNCHANGED << file, sources_yaml, curation_yaml, pc, run, state,
                    sources_config, items, selected, articles, failed_at, loads,
                    file_at_start, stages, lookback_days, handed, committed,
                    saved_urls, added, fn_in >>

NextPage == PageExtract

SpecPage == InitPage /\ [][NextPage]_vars

-----------------------------------------------------------------------------
(* SpecBatch: extract_all applied to batches of items with the URLs above,   *)
(* each page either extracted and saved or not fetched. items is the batch,  *)
(* fn_in the page of each item, fn_out the Articles returned and the         *)
(* articles directory afterwards.                                            *)

\* Number of items of a batch at most.
MaxBatch == 2

BatchUrls ==
    { "https://a.com/blog/post-1", "https://b.com/blog/post-1",
      "https://a.com/blog/post-1?page=2", "https://a.com/AI/Grid_1/",
      "https://a.com/", "https://a.com/blog/post-2",
      "https://a.com/xxxxxxxxxxxxxxxxxxxxxxxxxxxxxxxxxxxxxxxxxxxxxxxxxx1",
      "https://a.com/xxxxxxxxxxxxxxxxxxxxxxxxxxxxxxxxxxxxxxxxxxxxxxxxxx2" }

BatchPool ==
    {Item(url_hash(u), T_AI_tooling, u, NoDate, "s1", S_ai, "A", SELECTED) :
        u \in BatchUrls}

\* A page every stage of extract succeeds on.
GoodPage ==
    [fetch |-> [kind |-> "response", status |-> 200,
                content_type |-> "text/html; charset=utf-8", text |-> "<html>"],
     dom |-> [readability |-> [raises |-> FALSE, len |-> MinContentLen + 1],
              soup_raises |-> FALSE, elements |-> << >>, body |-> TRUE],
     raw |-> [raises |-> FALSE, text |-> Rep("w", MinTextLen)],
     save |-> "ok"]

\* The same page behind a connection that fails.
DeadPage ==
    [GoodPage EXCEPT !.fetch = [kind |-> "ConnectionError", status |-> 0,
                                content_type |-> "", text |-> ""]]

RECURSIVE ExtractAllPages(_, _, _, _)
\* The loop of extract_all, reader.py:55-65, from position i on: the Articles
\* appended and the articles directory afterwards.
ExtractAllPages(its, pages, i, dir) ==
    IF i > Len(its) THEN [articles |-> << >>, dir |-> dir]
    ELSE LET r == ExtractPage(its[i], pages[i], dir)
             rest == ExtractAllPages(its, pages, i + 1, r.dir)
         IN  [articles |-> << r.article >> \o rest.articles, dir |-> rest.dir]

InitBatch ==
    /\ file = MissingFile
    /\ sources_yaml = [exists |-> FALSE, groups |-> << >>]
    /\ curation_yaml = [exists |-> FALSE, data |-> DefaultCuration]
    /\ pc = "idle"
    /\ run = 0
    /\ state = EmptyState
    /\ sources_config = [groups |-> << >>]
    /\ items \in SeqsUpTo(BatchPool, MaxBatch)
    /\ selected = << >>
    /\ articles = << >>
    /\ failed_at = ""
    /\ loads = 0
    /\ file_at_start = file
    /\ stages = {}
    /\ lookback_days = LookbackDays
    /\ handed = {}
    /\ committed = {}
    /\ saved_urls = {}
    /\ added = {}
    /\ fn_op = "none"
    /\ fn_in \in [1..Len(items) -> {GoodPage, DeadPage}]
    /\ fn_out = [articles |-> << >>, dir |-> {}]

\* reader.extract_all(items)
BatchExtractAll ==
    /\ fn_op = "none"
    /\ fn_op' = "extract_all"
    /\ fn_out' = ExtractAllPages(items, fn_in, 1, fn_out.dir)
    /\ items' = [i \in 1..Len(items) |->
                    [items[i] EXCEPT
                        !.status = StatusAfterExtract(fn_out'.articles[i])]]
    /\ UNCHANGED << file, sources_yaml, curation_yaml, pc, run, state,
                    sources_config, selected, articles, failed_at, loads,
                    file_at_start, stages, lookback_days, handed, committed,
                    saved_urls, added, fn_in >>

NextBatch == BatchExtractAll

SpecBatch == InitBatch /\ [][NextBatch]_vars

-----------------------------------------------------------------------------
(* Claims checked under Spec *)

AllowedStatusStep(old, new) ==
    \/ old = new
    \/ old = PENDING /\ new = SELECTED
    \/ old = SELECTED /\ new \in {EXTRACTED, EXTRACT_FAILED}

C1_StatusStep ==
    \A i \in 1..Len(items') :
        IF run' = run /\ i <= Len(items)
        THEN AllowedStatusStep(items[i].status, items'[i].status)
        ELSE items'[i].status = PENDING

\* C1: within a run every item starts pending and its status only moves
\* pending -> selected -> extracted or pending -> selected -> extract_failed;
\* extracted and extract_failed are never left and no other status is assigned.
C1_StatusMachine == [][C1_StatusStep]_vars

\* C1 witness: one run left an extracted, a failed item side by side.
C1_Witness ==
    /\ \E i \in 1..Len(items) : items[i].status = EXTRACTED
    /\ \E i \in 1..Len(items) : items[i].status = EXTRACT_FAILED

ProbeItems(u) ==
    {Item(url_hash(u), T_AI_tooling, u, d, "s1", S_empty, "A", PENDING) :
        d \in {NoDate, Aware(12), Aware(240), Naive(12)}}

\* C3: every URL the state held at a completed save_state is reported
\* processed by each Collector constructed afterwards, whose filter drops every
\* item with that URL (none is among the items it collects); a URL never added
\* is not reported processed and an item with it passes the filter.
C3_SavedUrlsSuppressed ==
    pc # "idle" =>
        /\ \A u \in saved_urls :
              /\ is_processed(state, u)
              /\ \A it \in ProbeItems(u) :
                    FilterNew(<< it >>, state, lookback_days) = Returned(<< >>)
        /\ pc # "done" => UrlsOf(items) \cap saved_urls = {}
        /\ \A u \in URLS \ added :
              /\ ~is_processed(state, u)
              /\ \A it \in ProbeItems(u) :
                    it.published_at \in {NoDate, Aware(12)} =>
                        FilterNew(<< it >>, state, lookback_days) = Returned(<< it >>)

\* C3 witness: a Collector constructed after a save that held URLs, with
\* other URLs never added.
C3_Witness ==
    /\ pc = "collect"
    /\ run = 2
    /\ saved_urls # {}
    /\ URLS \ added # {}

\* C4: the durably saved processed_urls never loses a URL, whatever the run
\* found in the state file when it loaded it.
C4_DurableUrlsOnlyGrow == [][DurableUrls(file) \subseteq DurableUrls(file')]_vars

DownstreamStages == {"collect", "curate", "extract", "synthesize", "render", "notify"}

C6_CommitsSelectedUrls ==
    pc = "done" =>
        /\ file.kind = "ok"
        /\ Range(file.processed_urls) =
              LoadState(file_at_start).processed_urls \cup UrlsOf(SelectedItems)

\* C6 witness: a completed run with a failed selected item, an unselected
\* item and URLs loaded at its start.
C6_Witness ==
    /\ pc = "done"
    /\ \E i \in 1..Len(items) : items[i].status = EXTRACT_FAILED
    /\ \E i \in 1..Len(items) : items[i].status = PENDING
    /\ LoadState(file_at_start).processed_urls # {}

\* C7: collect() never returns two items with equal id.
C7_UniqueIds ==
    \A i, j \in 1..Len(items) : i # j => items[i].id # items[j].id

\* C7 witness: collect() returned several items, from both sources.
C7_Witness ==
    /\ Len(items) >= 2
    /\ \E i, j \in 1..Len(items) : items[i].source # items[j].source

\* C10: a failure while one source is handled (its record turned into a
\* Source, its feed fetched) never makes collect() raise.
C10_SourceFailureIsolated == ~(pc = "failed" /\ failed_at = "Source")

\* C11: loading the state never raises: a Collector is constructed whatever
\* the state file holds, and when the file is missing, is not JSON or does not
\* fit PipelineState, the state it starts with is a fresh empty one.
C11_LoadFailsSoft ==
    run >= 1 =>
        /\ loads = LoadsAtConstruction
        /\ failed_at # "_load_state"
        /\ (pc = "collect" /\ file.kind # "ok") => state = EmptyState

\* C11 witness: a Collector constructed over a file that holds a list of URLs
\* but does not fit PipelineState.
C11_Witness ==
    /\ pc = "collect"
    /\ file.kind = "badshape"
    /\ DurableUrls(file) # {}

\* C13: from the construction of the Collector until collect() has returned or
\* raised, and up to the next stage that completes, the in-memory state is the
\* one loaded and the state file is the one found.
C13_CollectLeavesState ==
    (run >= 1 /\ stages \subseteq {"collect"}) =>
        /\ state = LoadState(file_at_start)
        /\ file = file_at_start

\* C13 witness: collect() returned items to a Collector whose state holds URLs.
C13_Witness ==
    /\ pc = "curate"
    /\ items # << >>
    /\ state.processed_urls # {}

-----------------------------------------------------------------------------
(* Claims checked under SpecFn *)

\* The positions of l that hold the first item with their id.
FirstOccurrences(l) ==
    {i \in 1..Len(l) : \A j \in 1..(i - 1) : l[j].id # l[i].id}

\* The items of l at the positions P, in the order of l.
ItemsAt(l, P) ==
    [k \in 1..Cardinality(P) |->
        l[CHOOSE i \in P : Cardinality({j \in P : j <= i}) = k]]

\* C8: _deduplicate returns, for each id of the input, the first item with
\* that id and no later one, in the order of the input; applying it to its
\* own result changes nothing.
C8_DedupKeepsFirst ==
    fn_op = "deduplicate" =>
        /\ fn_out = Returned(ItemsAt(fn_in, FirstOccurrences(fn_in)))
        /\ Deduplicate(fn_out.items) = fn_out.items

\* C8 witness: an input of three items, two of which share an id with an
\* earlier, different item.
C8_Witness ==
    /\ fn_op = "deduplicate"
    /\ Len(fn_in) = 3
    /\ Len(fn_out.items) = 2
    /\ fn_in[1].id = fn_in[3].id
    /\ fn_in[1] # fn_in[3]

\* The filter as C9 states it.
C9_Keeps(it) ==
    /\ ~is_processed(state, it.url)
    /\ ~(it.published_at.kind # "none" /\ it.published_at.age > lookback_days * 24)

\* C9: _filter_new drops an item with a known publication date older than the
\* lookback window, keeps an unprocessed item with a known date inside it and
\* never drops an undated item for its age; the survivors keep their order.
C9_FilterByAge ==
    fn_op = "filter_new" =>
        fn_out = Returned(SelectSeq(fn_in, C9_Keeps))

-----------------------------------------------------------------------------
(* Claims checked under SpecStore *)

\* C12: a Collector constructed right after save_state holds exactly the
\* processed_urls that were saved; in particular load, save, load gives the
\* set of the first load.
C12_RoundTrip ==
    [][(fn_op = "save" /\ fn_op' = "load") =>
          /\ state'.processed_urls = saved_urls
          /\ state'.processed_urls = state.processed_urls]_vars

\* C12 witness: load, save, load over a state of several URLs, one of them
\* marked in an earlier process.
C12_Witness ==
    /\ fn_op = "load"
    /\ pc = "save"
    /\ Cardinality(state.processed_urls) >= 3
    /\ Len(file.processed_urls) >= 3
    /\ DurableUrls(file_at_start) # {}

-----------------------------------------------------------------------------
(* Claims checked under SpecCur *)

\* The configuration of the Curator.
Cfg == LoadConfig(curation_yaml)

\* The letters of the texts that differ in case only.
CasePairs == {{"A", "a"}, {"I", "i"}, {"G", "g"}, {"R", "r"}, {"D", "d"}}

SameLetter(a, b) == a = b \/ {a, b} \in CasePairs

\* pat occurs in text, letters compared without regard to case.
CIContains(text, pat) ==
    \E i \in 0..(Len(text) - Len(pat)) :
        \A k \in 1..Len(pat) : SameLetter(text[i + k], pat[k])

\* The text the lists are matched against: title, a space, snippet.
TitleSnippet(it) == it.title \o << " " >> \o it.snippet

Denied(it) ==
    \E i \in 1..Len(Cfg.denylist) : CIContains(TitleSnippet(it), Cfg.denylist[i])

Allowed(it) ==
    \E i \in 1..Len(Cfg.allowlist) : CIContains(TitleSnippet(it), Cfg.allowlist[i])

\* The filter as C17 states it.
C17_Keeps(it) ==
    /\ Len(it.title) >= Cfg.min_title_length
    /\ ~Denied(it)
    /\ Cfg.allowlist = << >> \/ Allowed(it)

\* The positions of items that survive the filter phase, as C17 states it.
Survivors == {i \in 1..Len(items) : C17_Keeps(items[i])}

Groups == {"A", "B"}

InGroup(P, g) == {i \in P : items[i].group = g}

Min(a, b) == IF a <= b THEN a ELSE b

\* Per group, exactly min(top_per_group, survivors of the group) are selected.
SelectedCounts ==
    \A g \in Groups :
        Cardinality(InGroup(Range(selected), g)) =
            Min(Cfg.top_per_group, Cardinality(InGroup(Survivors, g)))

\* C14: for every input list and every top_per_group, curate() returns, per
\* group, exactly min(top_per_group, c) items, c the number of the group's
\* items that survive the filter phase.
C14_TopNPerGroup ==
    fn_op = "curate" => (~fn_out.raised /\ SelectedCounts)

\* Position i ranks before position k: higher score, or equal score and
\* earlier in the input.
RanksBefore(i, k) ==
    LET si == ScoreTimes12(items[i], Cfg)
        sk == ScoreTimes12(items[k], Cfg)
    IN  si > sk \/ (si = sk /\ i < k)

\* The selection is in rank order, holds each position once, and every
\* survivor left out ranks after top_per_group selected ones of its group.
SelectedByRank ==
    /\ \A j, k \in 1..Len(selected) : j < k => RanksBefore(selected[j], selected[k])
    /\ Range(selected) \subseteq Survivors
    /\ \A k \in Survivors \ Range(selected) :
          LET mine == InGroup(Range(selected), items[k].group)
          IN  /\ Cardinality(mine) = Cfg.top_per_group
              /\ \A i \in mine : RanksBefore(i, k)

\* C15: the items curate() selects from a group are its highest-scoring
\* survivors, equal scores ranked by input order, and the sequence returned
\* is in non-increasing score order.
C15_HighestScoring ==
    fn_op = "curate" => (~fn_out.raised /\ SelectedByRank)

\* C16: no item whose title+snippet contains a denylist substring, in any
\* case, is in the output of curate(), allowlist match or not.
C16_DenylistWins ==
    fn_op = "curate" => \A j \in 1..Len(selected) : ~Denied(items[selected[j]])

\* C16 witness: curate() returned items from a list holding an item that
\* matches both lists.
C16_Witness ==
    /\ fn_op = "curate"
    /\ selected # << >>
    /\ \E i \in 1..Len(items) :
          /\ Denied(items[i])
          /\ Allowed(items[i])
          /\ Len(items[i].title) >= Cfg.min_title_length

\* C17: the filter phase keeps exactly the items whose title has at least
\* min_title_length characters, that match no denylist substring and, when the
\* allowlist is not empty, match one of its substrings; in input order.
C17_FilterPhase ==
    fn_op = "apply_filters" =>
        selected = SelectSeq([i \in 1..Len(items) |-> i],
                             LAMBDA i : C17_Keeps(items[i]))

\* C17 witness: a list of three items of which the filter drops one for its
\* title, keeps one by an allowlist pattern written in another case.
C17_Witness ==
    /\ fn_op = "apply_filters"
    /\ Len(items) = 3
    /\ Len(selected) = 1
    /\ Cfg.allowlist # << >>
    /\ \E i \in 1..Len(items) : Len(items[i].title) < Cfg.min_title_length
    /\ \E i \in 1..Len(items) : Denied(items[i])

-----------------------------------------------------------------------------
(* Claims checked under SpecExt *)

\* C18: extract(item) returns for every item, and whenever a stage failed the
\* Article returned carries an error string.
C18_ExtractNeverRaises ==
    fn_op = "extract" =>
        /\ ~fn_out.raised
        /\ Len(articles) = 1
        /\ fn_in[1] # "ok" => articles[1].error # ""

\* extract was called once per item, in input order, and the articles
\* returned pair with the items by position, each what extract gives for its
\* own item.
PairedByPosition ==
    /\ selected = [i \in 1..Len(items) |-> i]
    /\ Len(articles) = Len(items)
    /\ \A i \in 1..Len(items) :
          /\ articles[i].url = items[i].url
          /\ articles[i].success = (fn_in[i] \in {"ok", "save_failed"})

\* C19: extract_all calls extract once per item, in input order, and returns
\* as many results as items, the i-th with the URL of the i-th item and
\* decided by the i-th item alone.
C19_OncePerItem ==
    fn_op = "extract_all" => (~fn_out.raised /\ PairedByPosition)

\* C25: extract_all leaves the list as long as it was, every item in its
\* place and unchanged but for its status; the template synthesis that
\* follows shows, for each failed item, that item's snippet.
C25_ItemsKeptInPlace ==
    [][/\ fn_op' = "extract_all" =>
             /\ Len(items') = Len(items)
             /\ \A i \in 1..Len(items) :
                   items'[i] = [items[i] EXCEPT !.status = items'[i].status]
       /\ fn_op' = "synthesize" =>
             /\ Len(fn_out'.items) = Len(items)
             /\ \A i \in 1..Len(items) :
                   items[i].status = EXTRACT_FAILED =>
                       /\ fn_out'.items[i].kind = "snippet"
                       /\ fn_out'.items[i].text = items[i].snippet]_vars

\* C25 witness: synthesis over three items, the first extracted, the second
\* failed and sharing the URL of the first.
C25_Witness ==
    /\ fn_op = "synthesize"
    /\ Len(items) = 3
    /\ items[1].status = EXTRACTED
    /\ items[2].status = EXTRACT_FAILED
    /\ items[1].url = items[2].url
    /\ items[2].snippet # << >>

\* C20: after extract_all returns, an item is extracted exactly when its
\* paired result has success, extract_failed exactly when it has not; an item
\* whose page fetch failed (a 404) is extract_failed.
C20_StatusMatchesSuccess ==
    (fn_op = "extract_all" /\ ~fn_out.raised) =>
        \A i \in 1..Len(items) :
            /\ items[i].status = EXTRACTED <=> articles[i].success
            /\ items[i].status = EXTRACT_FAILED <=> ~articles[i].success
            /\ fn_in[i] = "fetch_failed" => items[i].status = EXTRACT_FAILED

\* C20 witness: extract_all returned for three items, one whose fetch failed,
\* one extracted whose artifact could not be saved, one extracted and saved.
C20_Witness ==
    /\ fn_op = "extract_all"
    /\ ~fn_out.raised
    /\ Len(items) = 3
    /\ fn_in[1] = "fetch_failed"
    /\ fn_in[2] = "save_failed"
    /\ fn_in[3] = "ok"

\* C30: every Article extract returns has success exactly when it has no
\* error, and no item is marked extracted while its Article carries an error.
C30_SuccessIffNoError ==
    (fn_op \in {"extract", "extract_all"} /\ ~fn_out.raised) =>
        \A i \in 1..Len(articles) :
            /\ articles[i].success <=> articles[i].error = ""
            /\ fn_op = "extract_all" =>
                  ~(items[i].status = EXTRACTED /\ articles[i].error # "")

-----------------------------------------------------------------------------
(* Claims checked under SpecContent *)

\* The selectors of a page whose element has more than 200 characters of
\* visible text.
LongSelectors(dom) ==
    {k \in DOMAIN dom.elements : dom.elements[k] > 200}

\* C27: the chain is tried in order and stops at the first accepted stage:
\* the readability output exactly when it has more than 200 characters;
\* otherwise the first selector of the priority list whose visible text has
\* more than 200 characters; otherwise the body; None only when no stage
\* yields markup.
C27_FirstAcceptedStage ==
    fn_op = "_extract_content" =>
        LET dom == fn_in
            r == fn_out
            readable == ~dom.readability.raises /\ dom.readability.len > 200
        IN  /\ r.stage = "readability" <=> readable
            /\ r.stage = "selector" <=>
                  (~readable /\ ~dom.soup_raises /\ LongSelectors(dom) # {})
            /\ r.stage = "selector" =>
                  /\ r.selector \in LongSelectors(dom)
                  /\ \A k \in LongSelectors(dom) : r.selector <= k
            /\ r.stage = "body" <=>
                  (~readable /\ ~dom.soup_raises /\ LongSelectors(dom) = {}
                      /\ dom.body)
            /\ r.stage = "none" <=>
                  (~readable /\ (dom.soup_raises
                                   \/ (LongSelectors(dom) = {} /\ ~dom.body)))

\* A page whose readability output is too short, whose first container is
\* too short and whose later container is long enough: the later one is
\* returned.
C27_Witness ==
    /\ fn_op = "_extract_content"
    /\ ~fn_in.readability.raises /\ fn_in.readability.len = 200
    /\ \E j, k \in DOMAIN fn_in.elements :
          j < k /\ fn_in.elements[j] = 200 /\ fn_in.elements[k] = 201
              /\ fn_out = Content("selector", k)

-----------------------------------------------------------------------------
(* Claims checked under SpecPage *)

\* The number of characters of t from its first to its last character that
\* is not whitespace.
TrimmedLen(t) ==
    Cardinality({i \in 1..Len(t) :
        \E a \in 1..i, b \in i..Len(t) :
            t[a] \notin {" ", "\n", "\t"} /\ t[b] \notin {" ", "\n", "\t"}})

\* The number of whitespace-delimited tokens of t: one more than the runs of
\* whitespace inside the trimmed text.
TokenCount(t) ==
    LET blank(i) == t[i] \in {" ", "\n", "\t"}
        inside(i) == (\E a \in 1..i : ~blank(a)) /\ (\E b \in i..Len(t) : ~blank(b))
        runs == {i \in 1..Len(t) : blank(i) /\ inside(i) /\ ~blank(i - 1)}
    IN  IF \A i \in 1..Len(t) : blank(i) THEN 0 ELSE Cardinality(runs) + 1

\* C21: extract never reports a short success: when the converted text is
\* empty or has fewer than 100 characters after trimming, the result has
\* success = false with the too-short reason; every result with success =
\* true has at least 100 characters of trimmed text and a word_count equal to
\* the number of its whitespace-delimited tokens.
C21_NoShortSuccess ==
    fn_op = "extract" =>
        LET a == fn_out.article
            converted == ToMarkdown(fn_in.raw)
        IN  /\ (fn_out.calls[Len(fn_out.calls)] = "_to_markdown"
                  \/ fn_out.calls[Len(fn_out.calls)] = "_save_article") =>
                  ((converted = << >> \/ TrimmedLen(converted) < 100) =>
                      (~a.success /\ a.error = "Extracted content too short"))
            /\ a.success =>
                  /\ TrimmedLen(a.extracted_text) >= 100
                  /\ a.word_count = TokenCount(a.extracted_text)

\* A success on a text that has exactly 100 characters in two words once the
\* conversion has collapsed a longer one.
C21_Witness ==
    /\ fn_op = "extract"
    /\ fn_out.article.success
    /\ Len(fn_out.article.extracted_text) = 100
    /\ fn_out.article.word_count = 2
    /\ Len(fn_in.raw.text) > 100

\* C22: for every item passed to extract, whether the extraction succeeds or
\* fails, a metadata record (slug, url, title, success, error, word count,
\* timestamp) keyed by the item's slug is written; stated for the cases where
\* the storage accepts the writes.
C22_MetadataAlwaysWritten ==
    (fn_op = "extract" /\ fn_in.save = "ok") =>
        \E f \in fn_out.dir :
            /\ f.kind = "meta"
            /\ f.slug = fn_out.article.slug
            /\ f.holds.url = items[1].url
            /\ f.holds.success = fn_out.article.success
            /\ f.holds.error = fn_out.article.error

\* C28: a fetch that ends in a transport error or timeout, a status outside
\* 200..299 or a content type outside the HTML family makes extract return
\* success = false with the fetch-failure reason, and nothing after the fetch
\* is performed: no content extraction, no conversion, no file written.
C28_FetchFailureStopsExtract ==
    (/\ fn_op = "extract"
     /\ \/ fn_in.fetch.kind \in {"ConnectionError", "Timeout"}
        \/ fn_in.fetch.status < 200
        \/ fn_in.fetch.status > 299
        \/ fn_in.fetch.content_type \in {"application/json", ""}) =>
        /\ ~fn_out.article.success
        /\ fn_out.article.error = "Failed to fetch HTML"
        /\ fn_out.calls = << "_fetch_html" >>
        /\ fn_out.dir = {}

-----------------------------------------------------------------------------
(* Claims checked under SpecBatch *)

\* C23: two items of one batch with different URLs get different slugs, so
\* after extract_all the markdown file named by the slug of every extracted
\* item is the one written for that item.
C23_SlugsDistinct ==
    fn_op = "extract_all" =>
        \A i, j \in 1..Len(items) :
            items[i].url # items[j].url =>
                /\ fn_out.articles[i].slug # fn_out.articles[j].slug
                /\ fn_out.articles[i].success =>
                      \E f \in fn_out.dir :
                          /\ f.kind = "md"
                          /\ f.slug = fn_out.articles[i].slug
                          /\ f.url = items[i].url

-----------------------------------------------------------------------------
(* Claims checked under SpecScore *)

\* The score as C29 states it, times 12: 12 for each distinct allowlist entry
\* contained in title + snippet without regard to case, max(0, 24 - age) for
\* a publication time (0 without one), 6 for a snippet longer than 100.
C29_Score(it) ==
    12 * Cardinality({p \in Range(Cfg.allowlist) : CIContains(TitleSnippet(it), p)})
    + (IF it.published_at = NoDate THEN 0
       ELSE IF it.published_at.age < 24 THEN 24 - it.published_at.age ELSE 0)
    + (IF Len(it.snippet) > 100 THEN 6 ELSE 0)

\* C29: every score _score_items returns is the score C29 states; an
\* allowlist naming the same substring twice gives no more than naming it
\* once.
C29_ScoreAsStated ==
    (fn_op = "_score_items" /\ ~fn_out.raised) =>
        \A j \in 1..Len(fn_out.items) :
            fn_out.items[j].score = C29_Score(items[fn_out.items[j].idx])

=============================================================================
